---- MODULE Spec2Model ----
(***************************************************************************)
(* The process manager of selfdrive/manager/manager.py as a state machine: *)
(* main() running manager_init, manager_prepare, manager_thread (one       *)
(* action per statement group of a loop tick), manager_cleanup and the     *)
(* power-action dispatch, together with what acts on it from outside: the  *)
(* SIGTERM handler, other processes writing params, and the managed        *)
(* worker processes exiting.                                               *)
(***************************************************************************)
EXTENDS Naturals, Sequences, FiniteSets, TLC

\* Largest number of entries of managed_processes that is explored.
MaxProcs == 2

None == "None"

\* Names managed_processes may hold, in its enumeration order.
ProcNames == <<"ui", "controlsd", "pandad", "uploader">>

UNREGISTERED_DONGLE_ID == "UnregisteredDevice"

CLEAR_ON_MANAGER_START == "CLEAR_ON_MANAGER_START"
CLEAR_ON_ONROAD_TRANSITION == "CLEAR_ON_ONROAD_TRANSITION"
CLEAR_ON_OFFROAD_TRANSITION == "CLEAR_ON_OFFROAD_TRANSITION"
DEVELOPMENT_ONLY == "DEVELOPMENT_ONLY"
PERSISTENT == "PERSISTENT"

\* for param in ("DoUninstall", "DoShutdown", "DoReboot")
ShutdownParams == <<"DoUninstall", "DoShutdown", "DoReboot">>

Flags == {"DoUninstall", "DoShutdown", "DoReboot"}

\* The keys of the params store that the modelled code reads or writes.
Keys == Flags \cup {"LastManagerExitReason", "Passive", "DongleId",
                    "RecordFrontLock", "RecordFront", "GsmMetered",
                    "LastUpdateTime"}

Categories == {CLEAR_ON_MANAGER_START, CLEAR_ON_ONROAD_TRANSITION,
               CLEAR_ON_OFFROAD_TRANSITION, DEVELOPMENT_ONLY, PERSISTENT}

\* The clear-category each key is tagged with in the params key table.
KeyType(k) ==
  IF k \in Flags \cup {"LastManagerExitReason"} THEN CLEAR_ON_MANAGER_START
  ELSE PERSISTENT

\* default_params, cut to one representative row of the table.
default_params == << <<"GsmMetered", "1">> >>

\* datetime.datetime.utcnow() of the first and of the second run of
\* manager_init: two runs never read the same time.
Timestamps == <<"t1", "t2">>

VARIABLES
  pc,               \* where main() stands
  managed_processes,\* the registry: worker names in enumeration order
  alive,            \* per worker: p.proc.is_alive()
  shutting_down,    \* per worker: a stop signal was sent and not yet obeyed
  prepared,         \* workers whose prepare() ran
  params,           \* the params store
  wsl2,             \* what is_running_on_wsl2() returns on this host
  prepare_only,     \* main's local prepare_only
  key_type,         \* the params key table: the clear-category of each key
  boot,             \* manager_init run over again: the environment of the
                    \* runs, how many were made, the store the first left
  handler,          \* the SIGTERM handler of line 319 is installed
  ignore,           \* manager_thread's local ignore (a list)
  entry_env,        \* what lines 239-243 read to build ignore: DongleId and
                    \* the environment's NOBOARD and BLOCK at that moment
  started,          \* manager_thread's local started
  started_prev,     \* manager_thread's local started_prev
  shutdown,         \* manager_thread's local shutdown
  param_i,          \* index of the for loop over ShutdownParams (0: not in it)
  ci,               \* index of the for loop manager_cleanup is in
  exc,              \* the exception in flight: None, "Exception", "SystemExit"
  exit_status,      \* "running", "0", "1" or "raised" (uncaught exception)
  onroad_written,   \* last value handed to write_onroad_params
  managerState,     \* last heartbeat manager_thread's PubMaster sent: the set
                    \* of workers reported alive
  \* observation only (never read by the program's actions)
  thread_entered,   \* manager_thread() was called
  top_events,       \* the exception that left main() before the loop, and the
                    \* calls __main__'s except clause made for it, in order
  exit_by,          \* how manager_thread was left
  cleanup_calls,    \* number of calls of manager_cleanup
  sentry_calls,     \* number of calls of sentry.capture_exception
  stop_calls,       \* calls p.stop(block=..) made by manager_cleanup, in order
  power_calls,      \* HARDWARE power actions invoked, in order
  reason_writes,    \* writes of LastManagerExitReason in the current tick
  flags_changed,    \* a shutdown flag was changed since this tick's first read
  tick_events,      \* calls made so far in the current tick, in order
  last_sample,      \* deviceState.started as sampled in the current tick
  prev_sample       \* deviceState.started as sampled in the tick before

vars == <<pc, managed_processes, alive, shutting_down, prepared, params, wsl2,
          prepare_only, key_type, boot, handler, ignore, entry_env, started,
          started_prev, shutdown, param_i, ci, exc, exit_status,
          onroad_written, managerState, thread_entered, top_events, exit_by,
          cleanup_calls, sentry_calls, stop_calls, power_calls, reason_writes,
          flags_changed, tick_events, last_sample, prev_sample>>

prog == <<managed_processes, wsl2, prepare_only, key_type, boot>>
workers == <<alive, shutting_down>>
locals == <<ignore, entry_env, started, started_prev, shutdown, param_i>>
ghost_tick == <<reason_writes, tick_events, last_sample, prev_sample>>
run_seen == <<thread_entered, top_events>>
ghost_loop == <<thread_entered, exit_by, cleanup_calls, sentry_calls,
                stop_calls, power_calls>>
ghost_run == <<ghost_loop, top_events>>

----
\* Params (common/params): get, get_bool, put_bool, clear_all.

BoolStr(b) == IF b THEN "1" ELSE "0"

get_bool(p, k) == p[k] = "1"

put(p, k, v) == [p EXCEPT ![k] = v]

put_bool(p, k, b) == put(p, k, BoolStr(b))

clear_all(p, type) ==
  [k \in DOMAIN p |-> IF key_type[k] = type THEN None ELSE p[k]]

----
\* ManagerProcess (manager/process.py): start, stop, and ensure_running.

ProcSet == {managed_processes[i] : i \in DOMAIN managed_processes}

\* Workers that run whatever the operating state; the others run onroad only.
AlwaysRun == {"ui", "pandad", "uploader"}

should_run(p, onroad) == p \in AlwaysRun \/ onroad

\* p.start() for every p in S.
StartAll(al, S) == [p \in DOMAIN al |-> al[p] \/ p \in S]

StartedDown(sd, S) == [p \in DOMAIN sd |-> sd[p] /\ p \notin S]

\* p.stop(block=False) for every p in S: a live worker is signalled.
SignalAll(al, sd, S) == [p \in DOMAIN sd |-> sd[p] \/ (p \in S /\ al[p])]

InList(x, l) == \E i \in DOMAIN l : l[i] = x

RunSet(onroad, not_run) ==
  {p \in ProcSet : ~InList(p, not_run) /\ should_run(p, onroad)}

----
\* manager_init

RECURSIVE SeedDefaults_mut(_, _)
\* SeedDefaults without the test of line 151: every default is written.
SeedDefaults_mut(p, defaults) ==
  IF defaults = <<>> THEN p
  ELSE SeedDefaults_mut(put(p, Head(defaults)[1], Head(defaults)[2]),
                        Tail(defaults))

RECURSIVE SeedDefaults(_, _)
\* for k, v in default_params: if params.get(k) is None: params.put(k, v)
SeedDefaults(p, defaults) ==
  IF defaults = <<>> THEN p
  ELSE LET k == Head(defaults)[1]
           v == Head(defaults)[2]
       IN SeedDefaults(IF p[k] = None THEN put(p, k, v) ELSE p, Tail(defaults))

\* Lines 37-42: the categories cleared at start.
InitClear(p, release) ==
  LET p1 == clear_all(clear_all(clear_all(p, CLEAR_ON_MANAGER_START),
                                CLEAR_ON_ONROAD_TRANSITION),
                      CLEAR_ON_OFFROAD_TRANSITION)
  IN IF release THEN clear_all(p1, DEVELOPMENT_ONLY) ELSE p1

\* Lines 143-144: on a device the table gets a row more, the time of the run.
Defaults(PC, now) ==
  default_params \o (IF PC THEN <<>> ELSE << <<"LastUpdateTime", now>> >>)

\* Lines 146-152: the RecordFrontLock rule, then the defaults for unset keys.
InitDefaults(p, PC, now) ==
  SeedDefaults(IF get_bool(p, "RecordFrontLock")
               THEN put_bool(p, "RecordFront", TRUE) ELSE p,
               Defaults(PC, now))

\* Lines 155-156: bool(int(os.getenv("PASSIVE"))) of "0" and "1".
InitPassive(p, PASSIVE) ==
  IF PASSIVE /= None THEN put_bool(p, "Passive", PASSIVE /= "0") ELSE p

\* The params store when manager_init reaches the Passive check of line 158.
ManagerInitParams(p, PASSIVE, release, PC, now) ==
  InitPassive(InitDefaults(InitClear(p, release), PC, now), PASSIVE)

\* PassiveMissing with the check of line 158 dropped.
PassiveMissing_mut(p) == FALSE

\* Lines 158-159: "Passive must be set to continue".
PassiveMissing(p) == p["Passive"] = None

----
\* manager_thread: the ignore list of lines 238-243.

RECURSIVE SplitAcc(_, _, _)
\* str.split(","): the pieces between the commas of s, an empty s giving one
\* empty piece. A string is a sequence of symbols, a worker's name one symbol.
SplitAcc(s, cur, out) ==
  IF s = <<>> THEN Append(out, cur)
  ELSE IF Head(s) = "," THEN SplitAcc(Tail(s), <<>>, Append(out, cur))
  ELSE SplitAcc(Tail(s), Append(cur, Head(s)), out)

Split(s) == SplitAcc(s, <<>>, <<>>)

RECURSIVE NonEmptyNames(_)
\* [x for x in pieces if len(x) > 0]
NonEmptyNames(pieces) ==
  IF pieces = <<>> THEN <<>>
  ELSE IF Len(Head(pieces)) > 0
       THEN <<Head(pieces)[1]>> \o NonEmptyNames(Tail(pieces))
       ELSE NonEmptyNames(Tail(pieces))

\* Line 239: params.get("DongleId") in (None, UNREGISTERED_DONGLE_ID)
Unregistered(dongle) == dongle \in {None, UNREGISTERED_DONGLE_ID}

\* IgnoreList with only None taken for an unregistered device.
IgnoreList_mut(dongle, NOBOARD, BLOCK) ==
  (IF dongle = None THEN <<"manage_athenad", "uploader">> ELSE <<>>)
  \o (IF NOBOARD THEN <<"pandad">> ELSE <<>>)
  \o NonEmptyNames(Split(BLOCK))

\* Lines 238-243.
IgnoreList(dongle, NOBOARD, BLOCK) ==
  (IF Unregistered(dongle) THEN <<"manage_athenad", "uploader">> ELSE <<>>)
  \o (IF NOBOARD THEN <<"pandad">> ELSE <<>>)
  \o NonEmptyNames(Split(BLOCK))

\* Values of the BLOCK environment variable that are explored ("" when unset).
BlockValues == {<<>>, <<"controlsd", ",", ",", "uploader">>}

\* manager_thread not entered: nothing read.
NoEntry == [dongle |-> None, NOBOARD |-> FALSE, BLOCK |-> <<>>]

PyBool(b) == IF b THEN "True" ELSE "False"

\* No run of manager_init made yet, in an environment not looked at.
NoBoot ==
  [runs |-> 0, PASSIVE |-> None, reg_res |-> None, release |-> FALSE,
   PC |-> FALSE, first |-> [k \in Keys |-> None]]

----
Init ==
  /\ pc = "manager_init"
  /\ \E n \in 0..MaxProcs :
       /\ managed_processes = SubSeq(ProcNames, 1, n)
       /\ alive = [p \in {ProcNames[i] : i \in 1..n} |-> FALSE]
       /\ shutting_down = [p \in {ProcNames[i] : i \in 1..n} |-> FALSE]
  /\ prepared = {}
  /\ \E passive \in {None, "0"}, reason \in {None, "DoReboot"} :
       params = [k \in Keys |-> IF k = "Passive" THEN passive
                                ELSE IF k = "LastManagerExitReason" THEN reason
                                ELSE IF k = "LastUpdateTime" THEN "t0"
                                ELSE None]
  /\ wsl2 \in BOOLEAN
  /\ prepare_only \in BOOLEAN
  /\ key_type = [k \in Keys |-> KeyType(k)]
  /\ boot = NoBoot
  /\ handler = FALSE
  /\ ignore = <<>>
  /\ entry_env = NoEntry
  /\ started = FALSE
  /\ started_prev = FALSE
  /\ shutdown = FALSE
  /\ param_i = 0
  /\ ci = 0
  /\ exc = None
  /\ exit_status = "running"
  /\ onroad_written = None
  /\ managerState = {}
  /\ thread_entered = FALSE
  /\ top_events = <<>>
  /\ exit_by = None
  /\ cleanup_calls = 0
  /\ sentry_calls = 0
  /\ stop_calls = <<>>
  /\ power_calls = <<>>
  /\ reason_writes = 0
  /\ flags_changed = FALSE
  /\ tick_events = <<>>
  /\ last_sample = FALSE
  /\ prev_sample = FALSE

----
\* main(), lines 297-316, and manager_init / manager_prepare.

\* An exception leaves main() with traceback tb, outermost frame first.
Raised(tb) == << <<"raised", tb>> >>

\* manager_init() with the environment's PASSIVE, the result of register()
\* (None: registration failed), is_release_branch() and hardware's PC.
manager_init(PASSIVE, reg_res, release, PC) ==
  /\ pc = "manager_init"
  /\ LET p == ManagerInitParams(params, PASSIVE, release, PC, Timestamps[1])
     IN IF PassiveMissing(p) \/ reg_res = None
        THEN /\ params' = p
             /\ exc' = "Exception"
             /\ top_events' = Raised(<<"<module>", "main", "manager_init">>)
             /\ pc' = "main_except"
        ELSE /\ params' = put(p, "DongleId", reg_res)
             /\ exc' = exc
             /\ top_events' = top_events
             /\ pc' = "start_ui"
  /\ UNCHANGED <<prog, workers, prepared, handler, locals, ci, exit_status,
                 onroad_written, managerState, ghost_loop, ghost_tick,
                 flags_changed>>

\* Lines 310-311: managed_processes['ui'].start(), a KeyError without 'ui'.
StartUI ==
  /\ pc = "start_ui"
  /\ IF prepare_only
     THEN /\ pc' = "manager_prepare"
          /\ UNCHANGED <<alive, exc, top_events>>
     ELSE IF "ui" \in ProcSet
     THEN /\ pc' = "manager_prepare"
          /\ alive' = StartAll(alive, {"ui"})
          /\ UNCHANGED <<exc, top_events>>
     ELSE /\ pc' = "main_except"
          /\ exc' = "Exception"
          /\ top_events' = Raised(<<"<module>", "main">>)
          /\ alive' = alive
  /\ UNCHANGED <<prog, shutting_down, prepared, params, handler, locals, ci,
                 exit_status, onroad_written, managerState, ghost_loop,
                 ghost_tick, flags_changed>>

\* AfterPrepare with the test of line 315 dropped: main() always goes on.
AfterPrepare_mut(only) == "signal"

\* Lines 315-316: if prepare_only: return
AfterPrepare(only) == IF only THEN "sys_exit" ELSE "signal"

\* Lines 313-316: manager_prepare(), then return if prepare_only. A prepare()
\* that raises (ok = FALSE) ends main() with that exception.
manager_prepare(ok) ==
  /\ pc = "manager_prepare"
  /\ IF ok
     THEN /\ prepared' = ProcSet
          /\ UNCHANGED <<exc, top_events>>
          /\ pc' = AfterPrepare(prepare_only)
     ELSE /\ prepared' = prepared
          /\ exc' = "Exception"
          /\ top_events' =
               Raised(<<"<module>", "main", "manager_prepare", "prepare">>)
          /\ pc' = "main_except"
  /\ UNCHANGED <<prog, workers, params, handler, locals, ci, exit_status,
                 onroad_written, managerState, ghost_loop, ghost_tick,
                 flags_changed>>

\* Line 319: signal.signal(signal.SIGTERM, lambda signum, frame: sys.exit(1))
InstallHandler ==
  /\ pc = "signal"
  /\ handler' = TRUE
  /\ pc' = "try"
  /\ UNCHANGED <<prog, workers, prepared, params, locals, ci, exc, exit_status,
                 onroad_written, managerState, ghost_run, ghost_tick,
                 flags_changed>>

----
\* manager_thread(), lines 229-294.

\* Lines 236-246, with the environment's NOBOARD and BLOCK.
EnterThread(NOBOARD, BLOCK) ==
  /\ pc = "try"
  /\ thread_entered' = TRUE
  /\ ignore' = IgnoreList(params["DongleId"], NOBOARD, BLOCK)
  /\ entry_env' = [dongle |-> params["DongleId"], NOBOARD |-> NOBOARD,
                   BLOCK |-> BLOCK]
  /\ pc' = "thread_write"
  /\ UNCHANGED <<prog, workers, prepared, params, handler, started,
                 started_prev, shutdown, param_i, ci, exc, exit_status,
                 onroad_written, managerState, top_events, exit_by,
                 cleanup_calls,
                 sentry_calls, stop_calls, power_calls, ghost_tick,
                 flags_changed>>

\* EntryOnroad with on-road written at loop entry.
EntryOnroad_mut == TRUE

\* Line 248: the value handed to write_onroad_params before the loop.
EntryOnroad == FALSE

\* Line 248: write_onroad_params(False, params)
ThreadWrite ==
  /\ pc = "thread_write"
  /\ onroad_written' = PyBool(EntryOnroad)
  /\ pc' = "thread_ensure"
  /\ UNCHANGED <<prog, workers, prepared, params, handler, locals, ci, exc,
                 exit_status, managerState, ghost_run, ghost_tick,
                 flags_changed>>

\* ensure_running(managed_processes.values(), onroad, not_run=ignore): every
\* worker that is not ignored and should run is started, every other one is
\* sent a non-blocking stop.
EnsureAlive(onroad) == StartAll(alive, RunSet(onroad, ignore))

EnsureDown(onroad) ==
  SignalAll(alive, StartedDown(shutting_down, RunSet(onroad, ignore)),
            ProcSet \ RunSet(onroad, ignore))

\* Lines 249-253: ensure_running(.., False, ..), started_prev = False.
ThreadEnsure ==
  /\ pc = "thread_ensure"
  /\ alive' = EnsureAlive(FALSE)
  /\ shutting_down' = EnsureDown(FALSE)
  /\ started_prev' = FALSE
  /\ pc' = "sm_update"
  /\ UNCHANGED <<prog, prepared, params, handler, ignore, entry_env, started,
                 shutdown, param_i, ci, exc, exit_status, onroad_written,
                 managerState,
                 ghost_run, ghost_tick, flags_changed>>

\* Lines 256-258: sm.update(); started = sm['deviceState'].started
SmUpdate(sample) ==
  /\ pc = "sm_update"
  /\ started' = sample
  /\ prev_sample' = last_sample
  /\ last_sample' = sample
  /\ tick_events' = <<>>
  /\ reason_writes' = 0
  /\ pc' = "clear"
  /\ UNCHANGED <<prog, workers, prepared, params, handler, ignore, entry_env,
                 started_prev, shutdown, param_i, ci, exc, exit_status,
                 onroad_written, managerState, ghost_run, flags_changed>>

\* Lines 260-263: which category this tick clears (None: none).
TransitionClear(now, prev) ==
  IF now /\ ~prev THEN CLEAR_ON_ONROAD_TRANSITION
  ELSE IF ~now /\ prev THEN CLEAR_ON_OFFROAD_TRANSITION
  ELSE None

\* Lines 260-263.
Clear ==
  /\ pc = "clear"
  /\ LET type == TransitionClear(started, started_prev)
     IN IF type = None
        THEN UNCHANGED <<params, tick_events>>
        ELSE /\ params' = clear_all(params, type)
             /\ tick_events' = Append(tick_events, <<"clear_all", type>>)
  /\ pc' = "write"
  /\ UNCHANGED <<prog, workers, prepared, handler, locals, ci, exc,
                 exit_status, onroad_written, managerState, ghost_run,
                 reason_writes, last_sample, prev_sample, flags_changed>>

\* OnroadChanged with the test of line 266 dropped: a write on every tick.
OnroadChanged_mut(now, prev) == TRUE

\* Line 266: if started != started_prev
OnroadChanged(now, prev) == now /= prev

\* Lines 266-267: write_onroad_params(started, params)
Write ==
  /\ pc = "write"
  /\ IF OnroadChanged(started, started_prev)
     THEN /\ onroad_written' = PyBool(started)
          /\ tick_events' =
               Append(tick_events, <<"write_onroad_params", PyBool(started)>>)
     ELSE UNCHANGED <<onroad_written, tick_events>>
  /\ pc' = "ensure"
  /\ UNCHANGED <<prog, workers, prepared, params, handler, locals, ci, exc,
                 exit_status, managerState, ghost_run, reason_writes,
                 last_sample, prev_sample, flags_changed>>

\* NextStartedPrev with the assignment of line 269 left out.
NextStartedPrev_mut(now, prev) == prev

\* Line 269: started_prev = started
NextStartedPrev(now, prev) == now

\* Lines 269-271: started_prev = started; ensure_running(.., started, ..)
Ensure ==
  /\ pc = "ensure"
  /\ started_prev' = NextStartedPrev(started, started_prev)
  /\ alive' = EnsureAlive(started)
  /\ shutting_down' = EnsureDown(started)
  /\ tick_events' = Append(tick_events, <<"ensure_running", PyBool(started)>>)
  /\ pc' = "publish"
  /\ UNCHANGED <<prog, prepared, params, handler, ignore, entry_env, started,
                 shutdown, param_i, ci, exc, exit_status, onroad_written,
                 managerState,
                 ghost_run, reason_writes, last_sample, prev_sample,
                 flags_changed>>

\* ProcessStates with every worker of the registry reported as running.
ProcessStates_mut(al) == ProcSet

\* Line 282: [p.get_process_state_msg() for p in managed_processes.values()],
\* cut to the running field: the workers whose process is alive.
ProcessStates(al) == {p \in ProcSet : al[p]}

\* Lines 273-286: the heartbeat, then shutdown = False.
Publish ==
  /\ pc = "publish"
  /\ managerState' = ProcessStates(alive)
  /\ tick_events' = Append(tick_events, <<"send", "managerState">>)
  /\ shutdown' = FALSE
  /\ param_i' = 1
  /\ pc' = "flag_check"
  /\ UNCHANGED <<prog, workers, prepared, params, handler, ignore, entry_env,
                 started,
                 started_prev, ci, exc, exit_status, onroad_written,
                 ghost_run, reason_writes, last_sample, prev_sample,
                 flags_changed>>

\* Line 288: params.get_bool(param) and not is_running_on_wsl2()
FlagSeen(p, param, guard) == get_bool(p, param) /\ ~guard

\* Lines 287-291: one round of the for loop over the three params.
CheckFlag ==
  /\ pc = "flag_check"
  /\ LET param == ShutdownParams[param_i]
     IN IF FlagSeen(params, param, wsl2)
        THEN /\ shutdown' = TRUE
             /\ params' = put(params, "LastManagerExitReason", param)
             /\ reason_writes' = reason_writes + 1
        ELSE UNCHANGED <<shutdown, params, reason_writes>>
  /\ flags_changed' = (param_i > 1 /\ flags_changed)
  /\ IF param_i < Len(ShutdownParams)
     THEN /\ param_i' = param_i + 1
          /\ pc' = pc
     ELSE /\ param_i' = 0
          /\ pc' = "loop_end"
  /\ UNCHANGED <<prog, workers, prepared, handler, ignore, entry_env, started,
                 started_prev, ci, exc, exit_status, onroad_written,
                 managerState, ghost_run, tick_events, last_sample,
                 prev_sample>>

\* Lines 293-294, no shutdown: the next round of while True.
LoopAgain ==
  /\ pc = "loop_end"
  /\ ~shutdown
  /\ pc' = "sm_update"
  /\ flags_changed' = FALSE
  /\ UNCHANGED <<prog, workers, prepared, params, handler, locals, ci, exc,
                 exit_status, onroad_written, managerState, ghost_run,
                 ghost_tick>>

\* Lines 293-294 and 326-327: break, manager_thread returns into the finally
\* clause, which calls manager_cleanup.
LoopBreak ==
  /\ pc = "loop_end"
  /\ shutdown
  /\ exit_by' = "flags"
  /\ ignore' = <<>>
  /\ entry_env' = NoEntry
  /\ started' = FALSE
  /\ started_prev' = FALSE
  /\ shutdown' = FALSE
  /\ param_i' = 0
  /\ tick_events' = <<>>
  /\ last_sample' = FALSE
  /\ prev_sample' = FALSE
  /\ reason_writes' = 0
  /\ managerState' = {}
  /\ cleanup_calls' = cleanup_calls + 1
  /\ ci' = 1
  /\ pc' = "cleanup_signal"
  /\ UNCHANGED <<prog, workers, prepared, params, handler, exc, exit_status,
                 onroad_written, run_seen, sentry_calls, stop_calls,
                 power_calls, flags_changed>>

----
\* main(), lines 318-338: the SIGTERM handler, try / except / finally, and the
\* power actions.

\* Statements of manager_thread that call out and so may raise.
RaisePcs == {"thread_write", "thread_ensure", "sm_update", "clear", "write",
             "ensure", "publish", "flag_check"}

\* Line 322: positions inside manager_thread(), the body of the try clause.
TryBody == RaisePcs \cup {"loop_end"}

\* Lines 323-325: positions inside the except clause.
ExceptPcs == {"except_print", "except_sentry", "except_end"}

\* TryPcs with manager_cleanup() called after the try statement instead of
\* in a finally clause: nothing is protected.
TryPcs_mut == {}

\* Lines 321-327: the positions the finally clause protects.
TryPcs == TryBody \cup ExceptPcs

\* Caught with a bare "except:" in line 323.
Caught_mut(e) == TRUE

\* Line 323, except Exception: what the except clause catches. SystemExit
\* derives from BaseException and is not caught.
Caught(e) == e = "Exception"

\* manager_thread's frame is dropped, its locals and its PubMaster with it.
LeaveThread ==
  /\ ignore' = <<>>
  /\ entry_env' = NoEntry
  /\ started' = FALSE
  /\ started_prev' = FALSE
  /\ shutdown' = FALSE
  /\ param_i' = 0
  /\ tick_events' = <<>>
  /\ last_sample' = FALSE
  /\ prev_sample' = FALSE
  /\ reason_writes' = 0
  /\ flags_changed' = FALSE
  /\ managerState' = {}

\* Exception e leaves the body of the try clause: into the except clause if
\* it is caught, else into the finally clause, which calls manager_cleanup.
LeaveTry(e) ==
  /\ exc' = e
  /\ IF Caught(e)
     THEN /\ pc' = "except_print"
          /\ UNCHANGED <<cleanup_calls, ci>>
     ELSE /\ pc' = "cleanup_signal"
          /\ cleanup_calls' = cleanup_calls + 1
          /\ ci' = 1

\* A statement of manager_thread raises an Exception.
Raise ==
  /\ pc \in RaisePcs
  /\ exit_by' = "exception"
  /\ LeaveThread
  /\ LeaveTry("Exception")
  /\ UNCHANGED <<prog, workers, prepared, params, handler, exit_status,
                 onroad_written, run_seen, sentry_calls, stop_calls,
                 power_calls>>

\* SIGTERM is delivered: the handler's sys.exit(1) raises SystemExit where
\* main() stands. In the body of the try clause it leaves manager_thread; in
\* the except clause it goes on to the finally clause; anywhere else, the
\* finally clause included, it ends the process.
Sigterm ==
  /\ handler
  /\ pc /= "exited"
  /\ IF pc \in TryPcs
     THEN /\ exit_status' = exit_status
          /\ IF pc \in TryBody
             THEN /\ exit_by' = "sigterm"
                  /\ LeaveThread
                  /\ LeaveTry("SystemExit")
             ELSE /\ exc' = "SystemExit"
                  /\ pc' = "cleanup_signal"
                  /\ cleanup_calls' = cleanup_calls + 1
                  /\ ci' = 1
                  /\ UNCHANGED <<locals, ghost_tick, flags_changed, exit_by,
                                 managerState>>
     ELSE /\ exc' = "SystemExit"
          /\ pc' = "exited"
          /\ exit_status' = "1"
          /\ UNCHANGED <<locals, ghost_tick, flags_changed, exit_by,
                         cleanup_calls, ci, managerState>>
  /\ UNCHANGED <<prog, workers, prepared, params, handler, onroad_written,
                 run_seen, sentry_calls, stop_calls, power_calls>>

\* Line 324: traceback.print_exc()
ExceptPrint ==
  /\ pc = "except_print"
  /\ pc' = "except_sentry"
  /\ UNCHANGED <<prog, workers, prepared, params, handler, locals, ci, exc,
                 exit_status, onroad_written, managerState, ghost_run,
                 ghost_tick, flags_changed>>

\* Line 325: sentry.capture_exception()
ExceptSentry ==
  /\ pc = "except_sentry"
  /\ sentry_calls' = sentry_calls + 1
  /\ pc' = "except_end"
  /\ UNCHANGED <<prog, workers, prepared, params, handler, locals, ci, exc,
                 exit_status, onroad_written, managerState, run_seen,
                 exit_by, cleanup_calls, stop_calls, power_calls, ghost_tick,
                 flags_changed>>

\* Lines 326-327: the except clause is done, the exception is handled, and
\* the finally clause calls manager_cleanup.
ExceptEnd ==
  /\ pc = "except_end"
  /\ exc' = None
  /\ cleanup_calls' = cleanup_calls + 1
  /\ ci' = 1
  /\ pc' = "cleanup_signal"
  /\ UNCHANGED <<prog, workers, prepared, params, handler, locals,
                 exit_status, onroad_written, managerState, run_seen,
                 exit_by, sentry_calls, stop_calls, power_calls, ghost_tick,
                 flags_changed>>

----
\* manager_cleanup(), lines 210-219.

\* Line 212: for p in managed_processes.values()
SignalLast == Len(managed_processes)

\* WaitLast with the second loop stopping one worker early.
WaitLast_mut ==
  IF Len(managed_processes) > 0 THEN Len(managed_processes) - 1 ELSE 0

\* Line 216: for p in managed_processes.values()
WaitLast == Len(managed_processes)

\* Lines 212-213: p.stop(block=False), one worker per step.
CleanupSignal ==
  /\ pc = "cleanup_signal"
  /\ IF ci <= SignalLast
     THEN /\ shutting_down' =
               SignalAll(alive, shutting_down, {managed_processes[ci]})
          /\ stop_calls' =
               Append(stop_calls, <<managed_processes[ci], PyBool(FALSE)>>)
          /\ ci' = ci + 1
          /\ pc' = pc
     ELSE /\ ci' = 1
          /\ pc' = "cleanup_wait"
          /\ UNCHANGED <<shutting_down, stop_calls>>
  /\ UNCHANGED <<prog, alive, prepared, params, handler, locals, exc,
                 exit_status, onroad_written, managerState, run_seen,
                 exit_by, cleanup_calls, sentry_calls, power_calls,
                 ghost_tick, flags_changed>>

\* p.stop(block=True) returns once p's process has exited.
StopReturns(al, p) == ~al[p]

\* Lines 216-219: p.stop(block=True), one worker per step: a worker still
\* alive is signalled (if it was not yet) and joined; the call returns, and
\* is recorded in stop_calls, when the worker has exited.
CleanupWait ==
  /\ pc = "cleanup_wait"
  /\ IF ci <= WaitLast
     THEN IF StopReturns(alive, managed_processes[ci])
          THEN /\ stop_calls' =
                    Append(stop_calls, <<managed_processes[ci], PyBool(TRUE)>>)
               /\ ci' = ci + 1
               /\ UNCHANGED <<shutting_down, pc>>
          ELSE /\ shutting_down' =
                    SignalAll(alive, shutting_down, {managed_processes[ci]})
               /\ UNCHANGED <<stop_calls, ci, pc>>
     ELSE /\ pc' = "cleanup_done"
          /\ UNCHANGED <<shutting_down, stop_calls, ci>>
  /\ UNCHANGED <<prog, alive, prepared, params, handler, locals, exc,
                 exit_status, onroad_written, managerState, run_seen,
                 exit_by, cleanup_calls, sentry_calls, power_calls,
                 ghost_tick, flags_changed>>

\* End of the finally clause: an exception in flight goes on, a SystemExit
\* ending the process and any other reaching __main__'s except clause;
\* with none, main() goes on to line 329.
FinallyEnd ==
  /\ pc = "cleanup_done"
  /\ IF exc = None
     THEN /\ pc' = "dispatch"
          /\ exit_status' = exit_status
     ELSE IF exc = "SystemExit"
     THEN /\ pc' = "exited"
          /\ exit_status' = "1"
     ELSE /\ pc' = "main_except"
          /\ exit_status' = exit_status
  /\ UNCHANGED <<prog, workers, prepared, params, handler, locals, ci, exc,
                 onroad_written, managerState, ghost_run, ghost_tick,
                 flags_changed>>

\* Lines 329-338: the if / elif chain choosing the power action.
PowerAction(p) ==
  IF get_bool(p, "DoUninstall") THEN "uninstall"
  ELSE IF get_bool(p, "DoReboot") THEN "reboot"
  ELSE IF get_bool(p, "DoShutdown") THEN "shutdown"
  ELSE None

\* PowerCalls with three separate if statements in place of if / elif.
PowerCalls_mut(p) ==
  (IF get_bool(p, "DoUninstall") THEN <<"uninstall">> ELSE <<>>)
  \o (IF get_bool(p, "DoReboot") THEN <<"reboot">> ELSE <<>>)
  \o (IF get_bool(p, "DoShutdown") THEN <<"shutdown">> ELSE <<>>)

\* Lines 329-338: the HARDWARE calls the chain makes, one at most.
PowerCalls(p) == IF PowerAction(p) = None THEN <<>> ELSE <<PowerAction(p)>>

\* Lines 329-338.
Dispatch ==
  /\ pc = "dispatch"
  /\ power_calls' = power_calls \o PowerCalls(params)
  /\ pc' = "sys_exit"
  /\ UNCHANGED <<prog, workers, prepared, params, handler, locals, ci, exc,
                 exit_status, onroad_written, managerState, run_seen,
                 exit_by, cleanup_calls, sentry_calls, stop_calls, ghost_tick,
                 flags_changed>>

----
\* __main__, lines 341-364.

\* Line 364: sys.exit(0)
SysExit ==
  /\ pc = "sys_exit"
  /\ exit_status' = "0"
  /\ pc' = "exited"
  /\ UNCHANGED <<prog, workers, prepared, params, handler, locals, ci, exc,
                 onroad_written, managerState, ghost_run, ghost_tick,
                 flags_changed>>

\* Lines 346-348: the exception that left main() is logged to a file.
MainExceptLog ==
  /\ pc = "main_except"
  /\ top_events' = Append(top_events, <<"cloudlog.exception">>)
  /\ pc' = "ui_stop"
  /\ UNCHANGED <<prog, workers, prepared, params, handler, locals, ci, exc,
                 exit_status, onroad_written, managerState, ghost_loop,
                 ghost_tick, flags_changed>>

\* Lines 350-353: managed_processes['ui'].stop(), blocking; a KeyError is
\* swallowed.
UiStop ==
  /\ pc = "ui_stop"
  /\ IF "ui" \in ProcSet /\ ~StopReturns(alive, "ui")
     THEN /\ shutting_down' = SignalAll(alive, shutting_down, {"ui"})
          /\ UNCHANGED <<pc, top_events>>
     ELSE /\ pc' = "text_window"
          /\ top_events' =
               Append(top_events,
                      <<"ui.stop", IF "ui" \in ProcSet THEN "stopped"
                                   ELSE "KeyError">>)
          /\ shutting_down' = shutting_down
  /\ UNCHANGED <<prog, alive, prepared, params, handler, locals, ci, exc,
                 exit_status, onroad_written, managerState, ghost_loop,
                 ghost_tick, flags_changed>>

\* Line 356: traceback.format_exc(-3)
TracebackLimit == 3

\* LastFrames with the whole traceback put in the report.
LastFrames_mut(tb, n) == tb

\* traceback.format_exc(-n): the last n frames of the traceback.
LastFrames(tb, n) ==
  IF Len(tb) <= n THEN tb ELSE SubSeq(tb, Len(tb) - n + 1, Len(tb))

\* The traceback of the exception __main__'s except clause is handling.
Traceback == IF top_events = <<>> THEN <<>> ELSE top_events[1][2]

\* Lines 355-361: the TextWindow is shown until acknowledged, then raise.
TextWindowRaise ==
  /\ pc = "text_window"
  /\ top_events' =
       top_events \o << <<"TextWindow", LastFrames(Traceback, TracebackLimit)>>,
                        <<"wait_for_exit">>, <<"raise">> >>
  /\ exit_status' = "raised"
  /\ pc' = "exited"
  /\ UNCHANGED <<prog, workers, prepared, params, handler, locals, ci, exc,
                 onroad_written, managerState, ghost_loop, ghost_tick,
                 flags_changed>>

----
\* What acts on the manager from outside.

\* The current tick has read its first shutdown flag, or the loop was left
\* because of the flags it read.
AfterFirstRead ==
  (pc = "flag_check" /\ param_i > 1) \/ pc = "loop_end" \/ exit_by = "flags"

\* Another process sets a shutdown flag: params.put_bool(f, True).
ExternalPut(f) ==
  /\ pc /= "exited"
  /\ ~get_bool(params, f)
  /\ params' = put_bool(params, f, TRUE)
  /\ flags_changed' = (flags_changed \/ AfterFirstRead)
  /\ UNCHANGED <<pc, prog, workers, prepared, handler, locals, ci, exc,
                 exit_status, onroad_written, managerState, ghost_run,
                 ghost_tick>>

\* Another process removes a shutdown flag: params.remove(f).
ExternalRemove(f) ==
  /\ pc /= "exited"
  /\ params[f] /= None
  /\ params' = put(params, f, None)
  /\ flags_changed' = (flags_changed \/ AfterFirstRead)
  /\ UNCHANGED <<pc, prog, workers, prepared, handler, locals, ci, exc,
                 exit_status, onroad_written, managerState, ghost_run,
                 ghost_tick>>

\* A worker's process exits, at a time of its choosing: it obeys a stop
\* signal, or it crashes.
WorkerExit(w) ==
  /\ pc /= "exited"
  /\ alive[w]
  /\ alive' = [alive EXCEPT ![w] = FALSE]
  /\ shutting_down' = [shutting_down EXCEPT ![w] = FALSE]
  /\ UNCHANGED <<pc, prog, prepared, params, handler, locals, ci, exc,
                 exit_status, onroad_written, managerState, ghost_run,
                 ghost_tick, flags_changed>>

\* Another process rewrites DongleId while manager_thread runs.
ExternalDongle(v) ==
  /\ pc \in TryBody
  /\ params["DongleId"] /= v
  /\ params' = put(params, "DongleId", v)
  /\ UNCHANGED <<pc, prog, workers, prepared, handler, locals, ci, exc,
                 exit_status, onroad_written, managerState, ghost_run,
                 ghost_tick, flags_changed>>

----
Next ==
  \/ \E PASSIVE \in {None, "0", "1"},
        reg_res \in {None, UNREGISTERED_DONGLE_ID, "dongle"},
        release \in BOOLEAN, PC \in BOOLEAN :
          manager_init(PASSIVE, reg_res, release, PC)
  \/ StartUI
  \/ \E ok \in BOOLEAN : manager_prepare(ok)
  \/ InstallHandler
  \/ \E NOBOARD \in BOOLEAN, BLOCK \in BlockValues : EnterThread(NOBOARD, BLOCK)
  \/ ThreadWrite
  \/ ThreadEnsure
  \/ \E sample \in BOOLEAN : SmUpdate(sample)
  \/ Clear
  \/ Write
  \/ Ensure
  \/ Publish
  \/ CheckFlag
  \/ LoopAgain
  \/ LoopBreak
  \/ Raise
  \/ Sigterm
  \/ ExceptPrint
  \/ ExceptSentry
  \/ ExceptEnd
  \/ CleanupSignal
  \/ CleanupWait
  \/ FinallyEnd
  \/ Dispatch
  \/ SysExit
  \/ MainExceptLog
  \/ UiStop
  \/ TextWindowRaise
  \/ \E f \in Flags : ExternalPut(f)
  \/ \E f \in Flags : ExternalRemove(f)
  \/ \E w \in DOMAIN alive : WorkerExit(w)

Spec == Init /\ [][Next]_vars

\* The same, with DongleId rewritten at any moment of the loop.
NextDongle ==
  \/ Next
  \/ \E v \in {UNREGISTERED_DONGLE_ID, "dongle"} : ExternalDongle(v)

SpecDongle == Init /\ [][NextDongle]_vars

----
\* manager_init run twice in a row, each run a process of its own, over any
\* store and any tagging of the keys the two runs write.

\* The keys whose clear-category is drawn; the others keep their tag.
BootKeys == {"GsmMetered", "LastUpdateTime", "RecordFront"}

\* A value a key may hold before the first run, besides none.
StoredValue(k) ==
  IF k = "RecordFrontLock" THEN "1"
  ELSE IF k = "LastUpdateTime" THEN "t0"
  ELSE "0"

InitBoot ==
  /\ pc = "manager_init"
  /\ managed_processes = <<>>
  /\ alive = [p \in {} |-> FALSE]
  /\ shutting_down = [p \in {} |-> FALSE]
  /\ prepared = {}
  /\ \E set \in SUBSET (BootKeys \cup {"RecordFrontLock", "Passive"}) :
       params = [k \in Keys |-> IF k \in set THEN StoredValue(k) ELSE None]
  /\ wsl2 = FALSE
  /\ prepare_only = FALSE
  /\ \E tags \in [BootKeys -> Categories] :
       key_type = [k \in Keys |-> IF k \in BootKeys THEN tags[k]
                                  ELSE KeyType(k)]
  /\ \E PASSIVE \in {None, "1"}, reg_res \in {None, "dongle"},
        release \in BOOLEAN, PC \in BOOLEAN :
       boot = [NoBoot EXCEPT !.PASSIVE = PASSIVE, !.reg_res = reg_res,
                             !.release = release, !.PC = PC]
  /\ handler = FALSE
  /\ ignore = <<>>
  /\ entry_env = NoEntry
  /\ started = FALSE
  /\ started_prev = FALSE
  /\ shutdown = FALSE
  /\ param_i = 0
  /\ ci = 0
  /\ exc = None
  /\ exit_status = "running"
  /\ onroad_written = None
  /\ managerState = {}
  /\ thread_entered = FALSE
  /\ top_events = <<>>
  /\ exit_by = None
  /\ cleanup_calls = 0
  /\ sentry_calls = 0
  /\ stop_calls = <<>>
  /\ power_calls = <<>>
  /\ reason_writes = 0
  /\ flags_changed = FALSE
  /\ tick_events = <<>>
  /\ last_sample = FALSE
  /\ prev_sample = FALSE

\* Lines 37-185: the store one run of manager_init leaves, whether it returns
\* or raises.
ManagerInitStore(p, PASSIVE, reg_res, release, PC, now) ==
  LET q == ManagerInitParams(p, PASSIVE, release, PC, now)
  IN IF PassiveMissing(q) \/ reg_res = None THEN q
     ELSE put(q, "DongleId", reg_res)

\* One run of manager_init, from its first line to its return or raise, in
\* the environment of boot.
BootRun ==
  /\ boot.runs < Len(Timestamps)
  /\ params' = ManagerInitStore(params, boot.PASSIVE, boot.reg_res,
                                boot.release, boot.PC,
                                Timestamps[boot.runs + 1])
  /\ boot' = [boot EXCEPT !.runs = boot.runs + 1,
                          !.first = IF boot.runs = 0 THEN params' ELSE @]
  /\ UNCHANGED <<pc, managed_processes, alive, shutting_down, prepared, wsl2,
                 prepare_only, key_type, handler, locals, ci, exc,
                 exit_status, onroad_written, managerState, ghost_run,
                 ghost_tick, flags_changed>>

NextBoot == BootRun

SpecBoot == InitBoot /\ [][NextBoot]_vars

----
\* Properties.

Reason == params["LastManagerExitReason"]

\* The loop was left by break, the flags as they were at that tick's first
\* read until now, and the power action chosen.
DispatchedAfterFlags ==
  pc = "sys_exit" /\ exit_by = "flags" /\ ~flags_changed

\* C1: when DoUninstall and DoShutdown are both true on the exiting tick and
\* unchanged afterwards, the recorded LastManagerExitReason names DoUninstall
\* and the power action invoked is uninstall, never shutdown.
C1_UninstallBeatsShutdown ==
  (/\ DispatchedAfterFlags
   /\ get_bool(params, "DoUninstall")
   /\ get_bool(params, "DoShutdown"))
  => (Reason = "DoUninstall" /\ power_calls = <<"uninstall">>)

\* The flag that wins in the order Uninstall > Reboot > Shutdown.
TopFlag(p) ==
  IF get_bool(p, "DoUninstall") THEN "DoUninstall"
  ELSE IF get_bool(p, "DoReboot") THEN "DoReboot"
  ELSE "DoShutdown"

ActionOf(flag) ==
  IF flag = "DoUninstall" THEN "uninstall"
  ELSE IF flag = "DoReboot" THEN "reboot"
  ELSE "shutdown"

\* C2: for every non-empty combination of flags true on the exiting tick and
\* unchanged until dispatch, the recorded reason names the highest flag in
\* the order Uninstall > Reboot > Shutdown, and that flag's power action is
\* the one invoked.
C2_ReasonMatchesDispatch ==
  DispatchedAfterFlags
  => (/\ Reason = TopFlag(params)
      /\ power_calls = <<ActionOf(TopFlag(params))>>)

\* Positions main() reaches only after leaving the try statement.
AfterTryPcs == {"cleanup_signal", "cleanup_wait", "cleanup_done", "dispatch",
                "sys_exit", "exited"}

\* C3: once manager_thread has been entered, manager_cleanup is invoked
\* exactly once before the process exits, however the loop ended: never
\* twice, and once as soon as the try statement has been left.
C3_CleanupExactlyOnce ==
  /\ cleanup_calls <= 1
  /\ (thread_entered /\ pc \in AfterTryPcs) => cleanup_calls = 1

\* The process has exited after an exception in a tick, cleanup called once.
C3_Witness ==
  /\ pc = "exited"
  /\ exit_by = "exception"
  /\ cleanup_calls = 1

\* The calls p.stop(block=b) for every managed worker, in enumeration order.
PhaseCalls(b) ==
  [i \in 1..Len(managed_processes) |-> <<managed_processes[i], PyBool(b)>>]

BothPhases == PhaseCalls(FALSE) \o PhaseCalls(TRUE)

IsPrefix(s, t) == Len(s) <= Len(t) /\ s = SubSeq(t, 1, Len(s))

\* C4: a SIGTERM delivered at any moment after manager_thread was entered
\* never skips teardown: when the process has exited, both stop phases have
\* been carried out for every managed worker.
C4_SigtermNeverSkipsTeardown ==
  (pc = "exited" /\ thread_entered) => stop_calls = BothPhases

C6_TwoPhaseStop ==
  /\ IsPrefix(stop_calls, BothPhases)
  /\ pc = "cleanup_wait" => Len(stop_calls) >= Len(managed_processes)
  /\ pc = "cleanup_done"
       => (stop_calls = BothPhases /\ \A p \in ProcSet : ~alive[p])

\* manager_cleanup has returned after stopping two workers.
C6_Witness ==
  /\ pc = "cleanup_done"
  /\ Len(managed_processes) >= 2
  /\ Len(stop_calls) = 2 * Len(managed_processes)

ClearsOf(ev) == SelectSeq(ev, LAMBDA e : e[1] = "clear_all")

WritesOf(ev) == SelectSeq(ev, LAMBDA e : e[1] = "write_onroad_params")

\* The clear a tick owes, given the sample before it and its own.
ExpectedClears(prev, now) ==
  IF ~prev /\ now THEN << <<"clear_all", CLEAR_ON_ONROAD_TRANSITION>> >>
  ELSE IF prev /\ ~now THEN << <<"clear_all", CLEAR_ON_OFFROAD_TRANSITION>> >>
  ELSE <<>>

\* C7: with the previous state initialised to off-road, a tick clears
\* CLEAR_ON_ONROAD_TRANSITION exactly when started went false to true,
\* CLEAR_ON_OFFROAD_TRANSITION exactly when it went true to false, and
\* nothing when started equals the previous tick's value.
C7_ClearOnEdgesOnly ==
  /\ pc = "clear" => tick_events = <<>>
  /\ pc \in {"write", "ensure", "publish", "flag_check", "loop_end"}
       => ClearsOf(tick_events) = ExpectedClears(prev_sample, last_sample)

\* A tick that went from on-road to off-road has cleared the off-road
\* category, and only that.
C7_Witness ==
  /\ pc = "write"
  /\ prev_sample
  /\ ~last_sample
  /\ tick_events = << <<"clear_all", CLEAR_ON_OFFROAD_TRANSITION>> >>

\* C8: a tick whose started differs from the previous tick's calls
\* write_onroad_params exactly once, with the new value and after the
\* tick's category clear; a tick whose started is unchanged does not call it.
C8_WriteOnChangeOnly ==
  pc \in {"ensure", "publish", "flag_check", "loop_end"}
  => /\ WritesOf(tick_events) =
          IF last_sample /= prev_sample
          THEN << <<"write_onroad_params", PyBool(last_sample)>> >>
          ELSE <<>>
     /\ \A i, j \in DOMAIN tick_events :
          (/\ tick_events[i][1] = "clear_all"
           /\ tick_events[j][1] = "write_onroad_params") => i < j
     /\ last_sample /= prev_sample => onroad_written = PyBool(last_sample)

\* A tick that went on-road has cleared, then written True.
C8_Witness ==
  /\ pc = "ensure"
  /\ tick_events = << <<"clear_all", CLEAR_ON_ONROAD_TRANSITION>>,
                      <<"write_onroad_params", "True">> >>

\* C9: LastManagerExitReason is written exactly once on the tick where the
\* loop decides to exit, whatever flags are true on it, and not at all on a
\* tick after which the loop continues.
C9_ReasonWrittenOnce ==
  (pc = "loop_end" /\ ~flags_changed)
  => reason_writes = (IF shutdown THEN 1 ELSE 0)

\* C10: if Passive has no value after the PASSIVE override was applied,
\* manager_init fails: manager_thread is never entered, no worker is started
\* or prepared, no power action is invoked, and the run ends in __main__'s
\* except clause.
C10_NoPassiveNoRun ==
  (pc /= "manager_init" /\ params["Passive"] = None)
  => /\ pc \in {"main_except", "ui_stop", "text_window", "exited"}
     /\ exit_status \in {"running", "raised"}
     /\ ~thread_entered
     /\ ~handler
     /\ prepared = {}
     /\ \A p \in ProcSet : ~alive[p]
     /\ power_calls = <<>>
     /\ cleanup_calls = 0

\* manager_init failed for want of Passive and the process has ended.
C10_Witness ==
  /\ pc = "exited"
  /\ params["Passive"] = None
  /\ exit_status = "raised"

\* The categories manager_init clears in the environment of boot.
ClearedAtStart ==
  {CLEAR_ON_MANAGER_START, CLEAR_ON_ONROAD_TRANSITION,
   CLEAR_ON_OFFROAD_TRANSITION}
  \cup (IF boot.release THEN {DEVELOPMENT_ONLY} ELSE {})

\* The seeding pass over store p leaves every key that has a value alone and
\* gives every unset key of the table its default.
SeedsUnsetOnly(p, defaults) ==
  /\ \A k \in Keys : p[k] /= None => SeedDefaults(p, defaults)[k] = p[k]
  /\ \A i \in DOMAIN defaults :
       p[defaults[i][1]] = None
         => SeedDefaults(p, defaults)[defaults[i][1]] = defaults[i][2]

\* C11 as stated: the seeding pass writes a default only for a key that is
\* unset, and after a second run of manager_init in the same environment and
\* build every key that had a value after the first run has the same value,
\* whatever clear-category each key is tagged with.
C11_SecondRunKeepsEveryValue ==
  /\ SeedsUnsetOnly(params, Defaults(boot.PC, Timestamps[2]))
  /\ boot.runs = 2
       => \A k \in Keys : boot.first[k] /= None => params[k] = boot.first[k]

\* C11 as amended: the seeding pass writes a default only for a key that is
\* unset, and after a second run of manager_init in the same environment and
\* build every key that had a value after the first run has the same value,
\* whatever the clear-categories, except LastUpdateTime on a device when its
\* category is one manager_init clears: it is then seeded anew, with the time
\* of the second run.
C11_SecondRunKeepsSeededValues ==
  /\ SeedsUnsetOnly(params, Defaults(boot.PC, Timestamps[2]))
  /\ boot.runs = 2
       => \A k \in Keys :
            boot.first[k] /= None
              => IF /\ k = "LastUpdateTime"
                    /\ ~boot.PC
                    /\ key_type[k] \in ClearedAtStart
                 THEN params[k] = Timestamps[2]
                 ELSE params[k] = boot.first[k]

\* Two runs were made over a store where GsmMetered, tagged with a category
\* cleared at start, held a value other than its default, and a persistent
\* LastUpdateTime held an older time: GsmMetered was seeded in both runs,
\* LastUpdateTime in neither.
C11_Witness ==
  /\ boot.runs = 2
  /\ key_type["GsmMetered"] = CLEAR_ON_MANAGER_START
  /\ key_type["LastUpdateTime"] = PERSISTENT
  /\ ~boot.PC
  /\ boot.first["GsmMetered"] = "1"
  /\ params["GsmMetered"] = "1"
  /\ params["LastUpdateTime"] = "t0"

\* The names of a list.
ListSet(l) == {l[i] : i \in DOMAIN l}

\* The workers that must not run, given what was read at loop entry.
ExpectedIgnore(e) ==
  (IF e.dongle = None \/ e.dongle = UNREGISTERED_DONGLE_ID
   THEN {"manage_athenad", "uploader"} ELSE {})
  \cup (IF e.NOBOARD THEN {"pandad"} ELSE {})
  \cup ({e.BLOCK[i] : i \in DOMAIN e.BLOCK} \ {","})

Names(ev) == [i \in DOMAIN ev |-> ev[i][1]]

IsSuffix(s, t) ==
  Len(s) <= Len(t) /\ s = SubSeq(t, Len(t) - Len(s) + 1, Len(t))

\* What __main__'s except clause does, in order.
TopLevelCalls ==
  <<"raised", "cloudlog.exception", "ui.stop", "TextWindow", "wait_for_exit",
    "raise">>

\* Positions of __main__'s except clause, and the process ended by it.
StartupFailurePcs == {"main_except", "ui_stop", "text_window", "exited"}

\* C13: an exception that leaves manager_init or main() before the loop is
\* handled by the top level in this order: logged to the file handler, the
\* UI worker's stop attempted (a missing UI worker's KeyError swallowed), the
\* last three frames of the traceback shown until acknowledged, the exception
\* raised again; the process never exits with success on this path.
C13_StartupFailurePath ==
  /\ (exc = "Exception" /\ ~thread_entered) => pc \in StartupFailurePcs
  /\ top_events /= <<>> =>
       /\ pc \in StartupFailurePcs
       /\ IsPrefix(Names(top_events), TopLevelCalls)
       /\ Len(top_events) = (IF pc = "main_except" THEN 1
                             ELSE IF pc = "ui_stop" THEN 2
                             ELSE IF pc = "text_window" THEN 3
                             ELSE Len(TopLevelCalls))
       /\ exit_status = (IF pc = "exited" THEN "raised" ELSE "running")
       /\ Len(top_events) >= 3 =>
            /\ top_events[3][2] = "KeyError" <=> "ui" \notin ProcSet
            /\ "ui" \in ProcSet => ~alive["ui"]
       /\ Len(top_events) >= 4 =>
            /\ IsSuffix(top_events[4][2], top_events[1][2])
            /\ Len(top_events[4][2]) =
                 (IF Len(top_events[1][2]) < 3 THEN Len(top_events[1][2])
                  ELSE 3)
       /\ ~thread_entered /\ ~handler
       /\ cleanup_calls = 0 /\ power_calls = <<>>

\* A worker's prepare() raised: the UI worker, started before, was stopped,
\* the report showed the last three of four frames, and the process ended
\* with the exception raised again.
C13_Witness ==
  /\ pc = "exited"
  /\ exit_status = "raised"
  /\ Len(top_events) = 6
  /\ top_events[1][2] = <<"<module>", "main", "manager_prepare", "prepare">>
  /\ top_events[3] = <<"ui.stop", "stopped">>
  /\ top_events[4] = <<"TextWindow", <<"main", "manager_prepare", "prepare">> >>

\* C14: when an exception has left the loop body, manager_cleanup runs and
\* the process then ends with a failure exit status, not with success.
C14_LoopExceptionExitsNonZero ==
  (pc = "exited" /\ exit_by = "exception")
  => (cleanup_calls = 1 /\ exit_status /= "0")

\* Positions of main() from the installing of the SIGTERM handler on.
AfterPrepareOnlyPcs ==
  {"signal", "try"} \cup TryPcs \cup
  {"cleanup_signal", "cleanup_wait", "cleanup_done", "dispatch"}

\* C15: in prepare-only mode main() returns right after manager_prepare, with
\* every worker prepared, and the process exits with success: the SIGTERM
\* handler is not installed, manager_thread is not entered, manager_cleanup
\* is not called, no power action is invoked and no managed worker, the UI
\* worker included, is started.
C15_PrepareOnlyStops ==
  prepare_only =>
    /\ pc \notin AfterPrepareOnlyPcs
    /\ ~handler
    /\ ~thread_entered
    /\ cleanup_calls = 0
    /\ stop_calls = <<>>
    /\ power_calls = <<>>
    /\ \A p \in ProcSet : ~alive[p]
    /\ pc = "sys_exit" => prepared = ProcSet
    /\ (pc = "exited" /\ exc = None)
         => (exit_status = "0" /\ prepared = ProcSet)

\* A prepare-only run over a registry with the UI worker and another has
\* exited with success, both prepared and neither started.
C15_Witness ==
  /\ prepare_only
  /\ pc = "exited"
  /\ exit_status = "0"
  /\ prepared = {"ui", "controlsd"}
  /\ ~alive["ui"]

EnsuresOf(ev) == SelectSeq(ev, LAMBDA e : e[1] = "ensure_running")

SendsOf(ev) == SelectSeq(ev, LAMBDA e : e[1] = "send")

\* The calls of a tick up to its position: none of the two before line 271,
\* the ensure_running call with the tick's started before line 283, and after
\* it that call followed by the one heartbeat, as the tick's last calls.
OneEnsureThenOneSend ==
  /\ pc \in {"clear", "write", "ensure"}
       => (EnsuresOf(tick_events) = <<>> /\ SendsOf(tick_events) = <<>>)
  /\ pc = "publish"
       => /\ EnsuresOf(tick_events) =
               << <<"ensure_running", PyBool(last_sample)>> >>
          /\ SendsOf(tick_events) = <<>>
          /\ tick_events[Len(tick_events)][1] = "ensure_running"
  /\ pc \in {"flag_check", "loop_end"}
       => /\ EnsuresOf(tick_events) =
               << <<"ensure_running", PyBool(last_sample)>> >>
          /\ SendsOf(tick_events) = << <<"send", "managerState">> >>
          /\ SubSeq(tick_events, Len(tick_events) - 1, Len(tick_events)) =
               << <<"ensure_running", PyBool(last_sample)>>,
                  <<"send", "managerState">> >>

\* The step that publishes the heartbeat, after the tick's ensure_running,
\* reports the workers alive at that step.
HeartbeatRead ==
  (pc = "publish" /\ pc' = "flag_check")
  => managerState' = {p \in ProcSet : alive[p]}

\* C16: every tick, whether or not started changed and also the tick that
\* detects a shutdown flag, calls ensure_running exactly once, with the
\* tick's started, and then publishes exactly one managerState heartbeat,
\* whose entries are read after that call and before the next tick's.
C16_EnsureThenHeartbeat == []OneEnsureThenOneSend /\ [][HeartbeatRead]_vars

\* A tick whose started did not change has detected a shutdown flag, after
\* its one ensure_running call and its one heartbeat, which reported the UI
\* worker alive and the other worker not.
C16_Witness ==
  /\ pc = "loop_end"
  /\ shutdown
  /\ tick_events = << <<"ensure_running", "False">>,
                      <<"send", "managerState">> >>
  /\ managerState = {"ui"}
  /\ Len(managed_processes) = 2

\* C17: a tick that has observed a shutdown flag true with the guard inactive
\* is the last one, the loop going nowhere but to its break; and once the
\* loop was left that way the run does not end before teardown has completed
\* and a power action has been invoked. (The process having exited, nothing
\* can be invoked any more.)
C17_FlagTickLastThenPowerAction ==
  /\ shutdown => pc \in {"flag_check", "loop_end"}
  /\ (pc = "exited" /\ exit_by = "flags")
       => (stop_calls = BothPhases /\ Len(power_calls) = 1)

\* C18: a run invokes at most one power action, and only after
\* manager_cleanup has returned, the blocking stop of every managed worker
\* completed: none before or during the loop, none during teardown.
C18_OnePowerActionAfterCleanup ==
  /\ Len(power_calls) <= 1
  /\ power_calls /= <<>>
       => /\ pc \in {"sys_exit", "exited"}
          /\ thread_entered
          /\ cleanup_calls = 1
          /\ stop_calls = BothPhases

\* With DoReboot and DoShutdown both set at the dispatch, reboot alone was
\* invoked, after both workers were stopped.
C18_Witness ==
  /\ pc = "sys_exit"
  /\ get_bool(params, "DoReboot")
  /\ get_bool(params, "DoShutdown")
  /\ power_calls = <<"reboot">>
  /\ Len(stop_calls) = 4

\* C19: a power action is invoked only in a run whose loop was left through
\* the detection of a shutdown flag: none after the loop was left by an
\* exception, and none while is_running_on_wsl2() holds, whatever flags are
\* set.
C19_PowerActionOnlyAfterFlagExit ==
  power_calls /= <<>> => (exit_by = "flags" /\ ~wsl2)

\* C20: from loop entry on, at every ensure_running call, the one before the
\* loop and the one of every tick, the value last handed to
\* write_onroad_params is the started value handed to ensure_running.
C20_OnroadWrittenMatchesEnsure ==
  /\ pc = "thread_ensure" => onroad_written = PyBool(FALSE)
  /\ pc = "ensure" => onroad_written = PyBool(started)
  /\ pc = "publish"
       => tick_events[Len(tick_events)] = <<"ensure_running", onroad_written>>

\* A tick that went back off-road is about to call ensure_running with
\* False, after False was written again.
C20_Witness ==
  /\ pc = "ensure"
  /\ prev_sample
  /\ ~started
  /\ onroad_written = "False"
  /\ WritesOf(tick_events) = << <<"write_onroad_params", "False">> >>

====
